---- MODULE Spec2Model ----
(***************************************************************************)
(* Sequential streaming orchestration of src/backend/src/config/index.js:  *)
(* the send_message handler, processModelsInSequence and processModel.     *)
(*                                                                         *)
(* A text is a sequence of tokens; a token is an opaque piece of a string. *)
(* The token " " is whitespace, the token "Error:" is the reserved prefix. *)
(* One run is one invocation of the send_message handler; in this model    *)
(* every connected socket sends at most one send_message, so a run is      *)
(* named by its socket.                                                    *)
(***************************************************************************)
EXTENDS Integers, Sequences, FiniteSets, TLC

\* ------------------------------------------------------------------ bounds

\* Fragments all generator calls together may pass to the chunk callback.
MaxChunks == 1

\* Fragments the generator calls of one client alone may pass to the callback.
MaxStream == 3

\* Connected clients (io.on('connection')), each with its own socket.
Sockets == {"c1", "c2"}

\* Session ids a client may send; "s0" is never known to the store.
SessionIds == {"s0", "s1", "s2"}

\* Sessions the store holds at start.
InitialSessions == {"s1", "s2"}

\* Sessions the store's expiry policy may drop while the model runs.
Expirable == {"s1"}

\* The text of the inbound user message.
UserTexts == {<<"hi">>}

\* Text fragments a backend may stream.
Fragments == {<<"hello">>, <<" ">>, <<"Error:">>}

\* Values a failing generator call may throw: an Error with a message, an
\* Error with an empty message, or a value that is no object (undefined).
Failures ==
  { [kind |-> "Error", message |-> <<"boom">>],
    [kind |-> "Error", message |-> <<>>],
    [kind |-> "undefined", message |-> <<>>] }

\* What Session.addMessage throws when the session no longer exists.
StoreFailure == [kind |-> "Error", message |-> <<"no session">>]

\* ------------------------------------------------------------------ texts

IsWhitespace(tok) == tok = " "

RECURSIVE TrimStart(_)
TrimStart(t) ==
  IF t = <<>> THEN <<>>
  ELSE IF IsWhitespace(Head(t)) THEN TrimStart(Tail(t)) ELSE t

RECURSIVE TrimEnd(_)
TrimEnd(t) ==
  IF t = <<>> THEN <<>>
  ELSE IF IsWhitespace(t[Len(t)]) THEN TrimEnd(SubSeq(t, 1, Len(t) - 1)) ELSE t

\* String.prototype.trim
Trim(t) == TrimEnd(TrimStart(t))

\* String.prototype.startsWith
StartsWith(t, p) == Len(t) >= Len(p) /\ SubSeq(t, 1, Len(p)) = p

ErrorPrefix == <<"Error:">>

\* !completeResponse || completeResponse.trim() === ''
IsEmptyResponse(t) == t = <<>> \/ Trim(t) = <<>>

\* The condition of the warning at line 168.
IsEmptyOrErrorResponse(t) == IsEmptyResponse(t) \/ StartsWith(t, ErrorPrefix)

\* `No response was generated from ${model.id}. This could be ...`
NoResponseText(id) ==
  << "No response was generated from", " ", id,
     ". This could be due to an issue with the model configuration or the input provided." >>

UnknownErrorText == <<"An unknown error occurred">>

\* `Error: ${error.message}`, without the default.
ErrorMessageTextNoDefault(err) ==
  ErrorPrefix \o <<" ">> \o (IF err.message # <<>> THEN err.message ELSE <<"undefined">>)

\* `Error: ${error.message || 'An unknown error occurred'}`
ErrorMessageText(err) ==
  ErrorPrefix \o <<" ">> \o (IF err.message # <<>> THEN err.message ELSE UnknownErrorText)

\* Reading error.message throws a TypeError when the caught value is no object.
ReadingMessageThrows(err) == err.kind = "undefined"

RECURSIVE Flatten(_)
\* The text a generator call returns: its fragments, concatenated.
Flatten(fs) == IF fs = <<>> THEN <<>> ELSE Head(fs) \o Flatten(Tail(fs))

\* ----------------------------------------------------------------- models

\* The models of processModelsInSequence, in the order of the array.
Models ==
  << [id |-> "deepseek", order |-> 1],
     [id |-> "nova", order |-> 2] >>

NumModels == Len(Models)

\* Generator calls, of all runs together, that may fail: as many as one run makes.
MaxThrows == NumModels

\* ----------------------------------------------------------------- events

ReceiveMessage(model, text, complete, s) ==
  [type |-> "receive_message", modelId |-> model.id, message |-> text,
   isComplete |-> complete, sessionId |-> s, order |-> model.order]

ModelComplete(model, s) ==
  [type |-> "model_complete", modelId |-> model.id, sessionId |-> s,
   order |-> model.order]

AllResponsesComplete(s) == [type |-> "all_responses_complete", sessionId |-> s]

InvalidSessionError ==
  [type |-> "error", code |-> "invalid_session", message |-> <<"Invalid session ID">>]

ModelError ==
  [type |-> "error", code |-> "model_error", message |-> <<"Error processing your message">>]

\* --------------------------------------------------------------- messages

UserMessage(text) == [role |-> "user", content |-> text]

AssistantMessage(model, text) ==
  [role |-> "assistant", modelId |-> model.id, content |-> text]

\* ------------------------------------------------------------------ state

VARIABLES
  sessions,   \* Session store: the ids it knows
  store,      \* Session store: the transcript of each id
  out,        \* per socket: the events emitted on it, in order
  emitted,    \* per run: the events the run has emitted, in order (history)
  pc,         \* per run: where the handler is
  sid,        \* per run: data.sessionId
  idx,        \* per run: index in Models of the model being processed
  history,    \* per run: the working transcript (the array `history`)
  streamed,   \* per run: fragments the generator call in flight has produced
  result,     \* per run: the text processModel resolved with (modelResponse)
  calls,      \* per run: generator invocations so far, with the transcript passed
  settled,    \* per run: how each finished generator call ended, in order
  before,     \* per run: the session's stored transcript when the handler began
  chunks,     \* fragments passed to chunk callbacks so far, all runs together
  thrown      \* generator calls that have failed so far, all runs together

vars ==
  << sessions, store, out, emitted, pc, sid, idx, history, streamed, result,
     calls, settled, before, chunks, thrown >>

NoSession == "none"

Init ==
  /\ sessions = InitialSessions
  /\ store = [s \in SessionIds |-> <<>>]
  /\ out = [c \in Sockets |-> <<>>]
  /\ emitted = [c \in Sockets |-> <<>>]
  /\ pc = [c \in Sockets |-> "idle"]
  /\ sid = [c \in Sockets |-> NoSession]
  /\ idx = [c \in Sockets |-> 0]
  /\ history = [c \in Sockets |-> <<>>]
  /\ streamed = [c \in Sockets |-> <<>>]
  /\ result = [c \in Sockets |-> <<>>]
  /\ calls = [c \in Sockets |-> <<>>]
  /\ settled = [c \in Sockets |-> <<>>]
  /\ before = [c \in Sockets |-> <<>>]
  /\ chunks = 0
  /\ thrown = 0

\* ---------------------------------------------------------- Session store

\* Session.getById: whether the store knows the id.
GetById(s) == s \in sessions

\* Session.addMessage on a session the store knows.
AddMessage(st, s, msg) == [st EXCEPT ![s] = Append(@, msg)]

\* Session.getHistory: a snapshot of the transcript.
GetHistory(st, s) == st[s]

\* Session.addMessage on a session the store no longer knows is undefined:
\* it either does nothing or throws.
AddMessageOutcomes(s) == IF GetById(s) THEN {"appended"} ELSE {"ignored", "throws"}

\* ---------------------------------------------------------- event channel

\* A handler that emits on another connection's socket.
ChannelOfOther(c) == CHOOSE d \in Sockets : d # c

\* The socket a handler emits on: the `socket` of its own connection.
Channel(c) == c

\* socket.emit for each event of evs, by the run of socket c.
Emit(c, evs) ==
  /\ out' = [out EXCEPT ![Channel(c)] = @ \o evs]
  /\ emitted' = [emitted EXCEPT ![c] = @ \o evs]

\* ------------------------------------------------------------ processModel

\* generateStreamingResponse(model.config.modelId, history, ...) is called.
Invoke(c, i, h) ==
  /\ calls' = [calls EXCEPT ![c] = Append(@, [modelId |-> Models[i].id, history |-> h])]
  /\ streamed' = [streamed EXCEPT ![c] = <<>>]
  /\ idx' = [idx EXCEPT ![c] = i]

\* How a generator call ended: the fragments it streamed, and either the text
\* it returned or the value it threw.
Returned(fs) == [kind |-> "returned", fragments |-> fs, value |-> Flatten(fs)]

Threw(fs, err) == [kind |-> "threw", fragments |-> fs, value |-> err]

\* A step that substitutes the placeholder for an `Error:` text as well.
CompleteResponseReplacesErrorText(model, response) ==
  IF IsEmptyOrErrorResponse(response) THEN NoResponseText(model.id) ELSE response

\* The step without the substitution of line 171.
CompleteResponseUnchanged(model, response) == response

\* Lines 165-182: the text the step goes on with after the generator returned.
CompleteResponse(model, response) ==
  IF IsEmptyOrErrorResponse(response) /\ IsEmptyResponse(response)
  THEN NoResponseText(model.id)
  ELSE response

\* A step that substitutes the placeholder without sending it as a chunk.
ManualChunkOmitted(model, s, response) == << >>

\* Lines 173-180: the manual chunk, sent only for an empty response.
ManualChunk(model, s, response) ==
  IF IsEmptyOrErrorResponse(response) /\ IsEmptyResponse(response)
  THEN << ReceiveMessage(model, CompleteResponse(model, response), FALSE, s) >>
  ELSE << >>

\* A final message that does not say it is the last.
FinalMessageNotComplete(model, s) == ReceiveMessage(model, <<>>, FALSE, s)

\* Lines 185-191 and 215-221: the final message indicating completion.
FinalMessage(model, s) == ReceiveMessage(model, <<>>, TRUE, s)

\* Lines 205-221: what the catch block emits for the caught value err.
CatchEvents(model, s, err) ==
  << ReceiveMessage(model, ErrorMessageText(err), FALSE, s), FinalMessage(model, s) >>

\* ---------------------------------------------------- send_message handler

\* send_message without a payload: destructuring `data` throws (line 50), the
\* handler's catch reports model_error (lines 74-80).
SendMessageMalformed(c) ==
  /\ pc[c] = "idle"
  /\ Emit(c, << ModelError >>)
  /\ pc' = [pc EXCEPT ![c] = "aborted"]
  /\ UNCHANGED << sessions, store, sid, idx, history, streamed, result, calls,
                  settled, before, chunks, thrown >>

\* The handler without the `return` of line 59: after the error it goes on and
\* stores the user message.
SendMessageInvalidNoReturn(c, s) ==
  /\ pc[c] = "idle"
  /\ ~GetById(s)
  /\ Emit(c, << InvalidSessionError >>)
  /\ pc' = [pc EXCEPT ![c] = "rejected"]
  /\ sid' = [sid EXCEPT ![c] = s]
  /\ store' = AddMessage(store, s, UserMessage(<<"hi">>))
  /\ UNCHANGED << sessions, idx, history, streamed, result, calls,
                  settled, before, chunks, thrown >>

\* send_message with a session id the store does not know (lines 53-60).
SendMessageInvalid(c, s) ==
  /\ pc[c] = "idle"
  /\ ~GetById(s)
  /\ Emit(c, << InvalidSessionError >>)
  /\ pc' = [pc EXCEPT ![c] = "rejected"]
  /\ sid' = [sid EXCEPT ![c] = s]
  /\ UNCHANGED << sessions, store, idx, history, streamed, result, calls,
                  settled, before, chunks, thrown >>

\* A handler that starts the session's transcript afresh with the user message.
SendMessageValidResets(c, s, text) ==
  /\ pc[c] = "idle"
  /\ GetById(s)
  /\ sid' = [sid EXCEPT ![c] = s]
  /\ before' = [before EXCEPT ![c] = <<>>]
  /\ store' = [store EXCEPT ![s] = << UserMessage(text) >>]
  /\ history' = [history EXCEPT ![c] = GetHistory(store', s)]
  /\ Invoke(c, 1, history'[c])
  /\ pc' = [pc EXCEPT ![c] = "generating"]
  /\ UNCHANGED << sessions, out, emitted, result, settled, chunks, thrown >>

\* A handler that stores the user message in every session the store knows.
SendMessageValidSharedTranscript(c, s, text) ==
  /\ pc[c] = "idle"
  /\ GetById(s)
  /\ sid' = [sid EXCEPT ![c] = s]
  /\ before' = [before EXCEPT ![c] = store[s]]
  /\ store' = [t \in SessionIds |->
                 IF t \in sessions THEN Append(store[t], UserMessage(text)) ELSE store[t]]
  /\ history' = [history EXCEPT ![c] = GetHistory(store', s)]
  /\ Invoke(c, 1, history'[c])
  /\ pc' = [pc EXCEPT ![c] = "generating"]
  /\ UNCHANGED << sessions, out, emitted, result, settled, chunks, thrown >>

\* A handler that waits while another run is in progress on the session.
SendMessageValidSerialized(c, s, text) ==
  /\ pc[c] = "idle"
  /\ GetById(s)
  /\ \A d \in Sockets \ {c} : ~(sid[d] = s /\ pc[d] \in {"generating", "resolved"})
  /\ sid' = [sid EXCEPT ![c] = s]
  /\ before' = [before EXCEPT ![c] = store[s]]
  /\ store' = AddMessage(store, s, UserMessage(text))
  /\ history' = [history EXCEPT ![c] = GetHistory(store', s)]
  /\ Invoke(c, 1, history'[c])
  /\ pc' = [pc EXCEPT ![c] = "generating"]
  /\ UNCHANGED << sessions, out, emitted, result, settled, chunks, thrown >>

\* send_message on a known session (lines 53-72), up to the first await:
\* the user message is stored, the transcript is read, processModelsInSequence
\* calls processModel for the first model, which calls the generator.
SendMessageValid(c, s, text) ==
  /\ pc[c] = "idle"
  /\ GetById(s)
  /\ sid' = [sid EXCEPT ![c] = s]
  /\ before' = [before EXCEPT ![c] = store[s]]
  /\ store' = AddMessage(store, s, UserMessage(text))
  /\ history' = [history EXCEPT ![c] = GetHistory(store', s)]
  /\ Invoke(c, 1, history'[c])
  /\ pc' = [pc EXCEPT ![c] = "generating"]
  /\ UNCHANGED << sessions, out, emitted, result, settled, chunks, thrown >>

\* ---------------------------------------------------------- the generator

\* A callback that forwards only the first fragment of a call.
GeneratorChunkWithinForwardsFirstOnly(c, f, n) ==
  /\ pc[c] = "generating"
  /\ chunks < n
  /\ chunks' = chunks + 1
  /\ streamed' = [streamed EXCEPT ![c] = Append(@, f)]
  /\ Emit(c, IF streamed[c] = <<>>
             THEN << ReceiveMessage(Models[idx[c]], f, FALSE, sid[c]) >>
             ELSE << >>)
  /\ UNCHANGED << sessions, store, pc, sid, idx, history, result, calls,
                  settled, before, thrown >>

\* The generator passes one more fragment to the chunk callback (lines 153-162),
\* while fewer than n fragments have been passed.
GeneratorChunkWithin(c, f, n) ==
  /\ pc[c] = "generating"
  /\ chunks < n
  /\ chunks' = chunks + 1
  /\ streamed' = [streamed EXCEPT ![c] = Append(@, f)]
  /\ Emit(c, << ReceiveMessage(Models[idx[c]], f, FALSE, sid[c]) >>)
  /\ UNCHANGED << sessions, store, pc, sid, idx, history, result, calls,
                  settled, before, thrown >>

GeneratorChunk(c, f) == GeneratorChunkWithin(c, f, MaxChunks)

\* The generator returns the concatenated text; processModel runs lines 165-200,
\* and lines 201-225 when Session.addMessage throws.
GeneratorReturns(c, outcome) ==
  /\ pc[c] = "generating"
  /\ outcome \in AddMessageOutcomes(sid[c])
  /\ LET model == Models[idx[c]]
         response == Flatten(streamed[c])
         completeResponse == CompleteResponse(model, response)
         sent == ManualChunk(model, sid[c], response) \o << FinalMessage(model, sid[c]) >>
     IN  CASE outcome = "appended" ->
                /\ Emit(c, sent)
                /\ store' = AddMessage(store, sid[c], AssistantMessage(model, completeResponse))
                /\ result' = [result EXCEPT ![c] = completeResponse]
           [] outcome = "ignored" ->
                /\ Emit(c, sent)
                /\ store' = store
                /\ result' = [result EXCEPT ![c] = completeResponse]
           [] outcome = "throws" ->
                /\ Emit(c, sent \o CatchEvents(model, sid[c], StoreFailure))
                /\ store' = store
                /\ result' = [result EXCEPT ![c] = ErrorMessageText(StoreFailure)]
  /\ settled' = [settled EXCEPT ![c] = Append(@, Returned(streamed[c]))]
  /\ pc' = [pc EXCEPT ![c] = "resolved"]
  /\ UNCHANGED << sessions, sid, idx, history, streamed, calls, before, chunks, thrown >>

\* A catch block that calls reject(error): the await of line 109 throws, the
\* sequencer rethrows (lines 129-132) and the handler reports model_error.
GeneratorThrowsRejects(c, err) ==
  /\ pc[c] = "generating"
  /\ thrown < MaxThrows
  /\ thrown' = thrown + 1
  /\ settled' = [settled EXCEPT ![c] = Append(@, Threw(streamed[c], err))]
  /\ Emit(c, << ModelError >>)
  /\ pc' = [pc EXCEPT ![c] = "aborted"]
  /\ UNCHANGED << sessions, store, sid, idx, history, streamed, result, calls,
                  before, chunks >>

\* The generator call fails with err; processModel runs its catch (lines 201-225).
\* When reading error.message throws, the async executor rejects, neither
\* resolve nor reject of the returned promise is called, and the await of
\* line 109 never resumes.
GeneratorThrows(c, err) ==
  /\ pc[c] = "generating"
  /\ thrown < MaxThrows
  /\ thrown' = thrown + 1
  /\ settled' = [settled EXCEPT ![c] = Append(@, Threw(streamed[c], err))]
  /\ IF ReadingMessageThrows(err)
     THEN /\ pc' = [pc EXCEPT ![c] = "stalled"]
          /\ UNCHANGED << out, emitted, result >>
     ELSE /\ Emit(c, CatchEvents(Models[idx[c]], sid[c], err))
          /\ result' = [result EXCEPT ![c] = ErrorMessageText(err)]
          /\ pc' = [pc EXCEPT ![c] = "resolved"]
  /\ UNCHANGED << sessions, store, sid, idx, history, streamed, calls, before,
                  chunks >>

\* -------------------------------------------------- processModelsInSequence

\* The loop without the push: the next model sees the same transcript.
PushHistoryOmitted(h, model, text) == h

\* history.push of lines 112-116.
PushHistory(h, model, text) == Append(h, AssistantMessage(model, text))

\* A loop that does not advance: the same model is processed again.
NextModelRepeats(i) == IF i < NumModels THEN i ELSE 0

\* The loop of line 108: the index after i, or 0 when the models are exhausted.
NextModel(i) == IF i < NumModels THEN i + 1 ELSE 0

\* A sequencer that announces the end of the run after every model.
SequencerStepCompletesEachModel(c) ==
  /\ pc[c] = "resolved"
  /\ LET model == Models[idx[c]]
         next == NextModel(idx[c])
     IN  /\ history' = [history EXCEPT ![c] = PushHistory(@, model, result[c])]
         /\ Emit(c, << ModelComplete(model, sid[c]), AllResponsesComplete(sid[c]) >>)
         /\ IF next # 0
            THEN /\ Invoke(c, next, history'[c])
                 /\ pc' = [pc EXCEPT ![c] = "generating"]
            ELSE /\ pc' = [pc EXCEPT ![c] = "completed"]
                 /\ UNCHANGED << calls, streamed, idx >>
  /\ UNCHANGED << sessions, store, sid, result, settled, before, chunks, thrown >>

\* The await of line 109 resumes with modelResponse: lines 112-123, then either
\* the next iteration up to its generator call, or line 127.
SequencerStep(c) ==
  /\ pc[c] = "resolved"
  /\ LET model == Models[idx[c]]
         next == NextModel(idx[c])
     IN  /\ history' = [history EXCEPT ![c] = PushHistory(@, model, result[c])]
         /\ IF next # 0
            THEN /\ Emit(c, << ModelComplete(model, sid[c]) >>)
                 /\ Invoke(c, next, history'[c])
                 /\ pc' = [pc EXCEPT ![c] = "generating"]
            ELSE /\ Emit(c, << ModelComplete(model, sid[c]), AllResponsesComplete(sid[c]) >>)
                 /\ pc' = [pc EXCEPT ![c] = "completed"]
                 /\ UNCHANGED << calls, streamed, idx >>
  /\ UNCHANGED << sessions, store, sid, result, settled, before, chunks, thrown >>

\* ------------------------------------------------------------ environment

\* The store's expiry policy drops a session.
ExpireSession(s) ==
  /\ GetById(s)
  /\ s \in Expirable
  /\ sessions' = sessions \ {s}
  /\ store' = [store EXCEPT ![s] = <<>>]
  /\ UNCHANGED << out, emitted, pc, sid, idx, history, streamed, result, calls,
                  settled, before, chunks, thrown >>

Next ==
  \/ \E c \in Sockets : SendMessageMalformed(c)
  \/ \E c \in Sockets, s \in SessionIds : SendMessageInvalid(c, s)
  \/ \E c \in Sockets, s \in SessionIds, text \in UserTexts : SendMessageValid(c, s, text)
  \/ \E c \in Sockets, f \in Fragments : GeneratorChunk(c, f)
  \/ \E c \in Sockets, outcome \in {"appended", "ignored", "throws"} : GeneratorReturns(c, outcome)
  \/ \E c \in Sockets, err \in Failures : GeneratorThrows(c, err)
  \/ \E c \in Sockets : SequencerStep(c)
  \/ \E s \in SessionIds : ExpireSession(s)

Spec == Init /\ [][Next]_vars

\* One client alone, whose generator calls may stream more fragments.
OneClient == "c1"

NextOneClient ==
  \/ SendMessageMalformed(OneClient)
  \/ \E s \in SessionIds : SendMessageInvalid(OneClient, s)
  \/ \E s \in SessionIds, text \in UserTexts : SendMessageValid(OneClient, s, text)
  \/ \E f \in Fragments : GeneratorChunkWithin(OneClient, f, MaxStream)
  \/ \E outcome \in {"appended", "ignored", "throws"} : GeneratorReturns(OneClient, outcome)
  \/ \E err \in Failures : GeneratorThrows(OneClient, err)
  \/ SequencerStep(OneClient)
  \/ \E s \in SessionIds : ExpireSession(s)

SpecOneClient == Init /\ [][NextOneClient]_vars

\* ================================================================== claims

\* The configured order of the models' identifiers.
ExpectedModelIds == <<"deepseek", "nova">>

\* The run of socket c has begun on a session the store knew.
Started(c) == pc[c] \in {"generating", "resolved", "completed", "stalled"}

\* No other run is on the session of the run of socket c.
AloneOnSession(c) == \A d \in Sockets \ {c} : sid[d] # sid[c]

IsAssistantOf(msg, id) == msg.role = "assistant" /\ msg.modelId = id

\* The transcript t is the transcript b, then one user message, then one
\* assistant message for each of the first n models, in configured order.
GrownBy(t, b, n) ==
  /\ Len(t) = Len(b) + 1 + n
  /\ SubSeq(t, 1, Len(b)) = b
  /\ t[Len(b) + 1].role = "user"
  /\ \A j \in 1..n : IsAssistantOf(t[Len(b) + 1 + j], ExpectedModelIds[j])

\* C1: when a run on a valid session ends, and no other run was on that
\* session, the stored transcript has grown by exactly one user message
\* followed by one assistant message per configured model, in configured
\* order, whatever the generator calls did (returned text, returned empty
\* text, threw).
C1_TranscriptGrowsByUserAndEveryModel ==
  \A c \in Sockets :
    (pc[c] = "completed" /\ GetById(sid[c]) /\ AloneOnSession(c))
      => GrownBy(store[sid[c]], before[c], NumModels)

\* C2: the transcript passed to the generator for model k holds what the
\* session held before the run, the run's user message, and exactly one
\* assistant message for each of models 1..k-1, in model order, and nothing
\* else; so it is strictly longer at each step of the run.
C2_GeneratorSeesEarlierModelsOnly ==
  \A c \in Sockets :
    \A k \in 1..Len(calls[c]) :
      /\ calls[c][k].modelId = ExpectedModelIds[k]
      /\ GrownBy(calls[c][k].history, before[c], k - 1)
      /\ k > 1 => Len(calls[c][k].history) > Len(calls[c][k - 1].history)

\* A generator call for the second model has been made, after another run
\* had already written to the same session.
C2_Witness ==
  \E c \in Sockets :
    /\ Len(calls[c]) = NumModels
    /\ before[c] # <<>>

\* C3: a send_message with a session id the store does not know yields exactly
\* one error event, with code invalid_session, and nothing else: no transcript
\* changes, no generator is invoked, and no receive_message, model_complete or
\* all_responses_complete is emitted.
C3_UnknownSessionOnlyReportsError ==
  /\ [](\A c \in Sockets :
          pc[c] = "rejected" =>
            /\ out[c] = << [type |-> "error", code |-> "invalid_session",
                            message |-> <<"Invalid session ID">>] >>
            /\ calls[c] = <<>>)
  /\ [][\A c \in Sockets :
          (pc[c] = "idle" /\ pc'[c] = "rejected") => (store' = store /\ calls' = calls)]_vars

\* A send_message with an unknown session id has been handled.
C3_Witness == \E c \in Sockets : pc[c] = "rejected" /\ sid[c] = "s0"

\* The receive_message events the run of socket c has emitted for model id.
ChunksOf(c, id) ==
  SelectSeq(emitted[c], LAMBDA e : e.type = "receive_message" /\ e.modelId = id)

\* The number of events of evs that satisfy Test.
Count(evs, Test(_)) == Len(SelectSeq(evs, Test))

IsTerminalChunk(e) == e.isComplete /\ e.message = <<>>

\* The per-model step for model k of the run of socket c has resolved.
StepResolved(c, k) ==
  \/ k < Len(calls[c])
  \/ k = Len(calls[c]) /\ pc[c] \in {"resolved", "completed"}

\* The text the step for model k resolved with: modelResponse, and after the
\* push the content of the working transcript's entry for model k.
StepText(c, k) ==
  IF pc[c] = "resolved" /\ idx[c] = k
  THEN result[c]
  ELSE history[c][Len(before[c]) + 1 + k].content

\* Where the events of a run stand in the order
\* (chunk* terminal model_complete) per model, then all_responses_complete.
OrderStep(q, e) ==
  CASE q.phase = "streaming" /\ e.type = "receive_message"
         /\ e.modelId = ExpectedModelIds[q.model] /\ e.order = q.model
         /\ ~e.isComplete
         -> q
    [] q.phase = "streaming" /\ e.type = "receive_message"
         /\ e.modelId = ExpectedModelIds[q.model] /\ e.order = q.model
         /\ IsTerminalChunk(e)
         -> [q EXCEPT !.phase = "terminated"]
    [] q.phase = "terminated" /\ e.type = "model_complete"
         /\ e.modelId = ExpectedModelIds[q.model] /\ e.order = q.model
         -> IF q.model < NumModels
            THEN [model |-> q.model + 1, phase |-> "streaming"]
            ELSE [q EXCEPT !.phase = "last"]
    [] q.phase = "last" /\ e.type = "all_responses_complete"
         -> [q EXCEPT !.phase = "done"]
    [] OTHER -> [q EXCEPT !.phase = "bad"]

RECURSIVE OrderAfter(_, _)
OrderAfter(q, evs) ==
  IF evs = <<>> THEN q ELSE OrderAfter(OrderStep(q, Head(evs)), Tail(evs))

OrderOf(c) == OrderAfter([model |-> 1, phase |-> "streaming"], emitted[c])

\* C4: the events of a run on a valid session come in this order: for each model
\* in configured order, its receive_message events with isComplete=false, then
\* its receive_message with empty text and isComplete=true, then its
\* model_complete; all_responses_complete comes once, after the last model's
\* model_complete, as the last event, and the run has completed exactly when it
\* has been emitted.
C4_EventsFollowModelOrder ==
  \A c \in Sockets :
    (Started(c) /\ GetById(sid[c])) =>
      /\ OrderOf(c).phase # "bad"
      /\ pc[c] = "completed" <=> OrderOf(c).phase = "done"

\* A run has completed on a valid session after its first model streamed a fragment.
C4_Witness ==
  \E c \in Sockets :
    /\ pc[c] = "completed"
    /\ GetById(sid[c])
    /\ settled[c][1].fragments # <<>>

\* The text `Error: <reason>` for the failure err: its message, or a generic
\* phrase when it has none.
ExpectedErrorText(err) ==
  IF err.message = <<>>
  THEN <<"Error:", " ", "An unknown error occurred">>
  ELSE <<"Error:", " ">> \o err.message

\* After the step for model k, the sequence went on: unless k is the last model
\* or the sequencer has not resumed yet, the generator of model k+1 was invoked
\* with the assistant message of model k, of content text, last in its transcript.
ProceedsWith(c, k, text) ==
  (k < NumModels /\ ~(pc[c] = "resolved" /\ idx[c] = k)) =>
    /\ Len(calls[c]) > k
    /\ calls[c][k + 1].modelId = ExpectedModelIds[k + 1]
    /\ LET h == calls[c][k + 1].history
       IN  h[Len(h)] = [role |-> "assistant", modelId |-> ExpectedModelIds[k], content |-> text]

\* C5: when the generator call for model k throws an error, the step's text is
\* `Error: <reason>`; it is emitted as a receive_message with isComplete=false,
\* the terminal receive_message follows as the model's last chunk, the step
\* resolves with that text, and the generator of the next model is invoked with
\* that assistant message in its transcript.
C5_ThrowBecomesErrorTextAndSequenceGoesOn ==
  \A c \in Sockets :
    \A k \in 1..Len(settled[c]) :
      (settled[c][k].kind = "threw" /\ settled[c][k].value.kind = "Error") =>
        LET text == ExpectedErrorText(settled[c][k].value)
            rms == ChunksOf(c, ExpectedModelIds[k])
            n == Len(rms)
        IN  /\ n = Len(settled[c][k].fragments) + 2
            /\ rms[n - 1].message = text /\ ~rms[n - 1].isComplete
            /\ IsTerminalChunk(rms[n])
            /\ StepResolved(c, k)
            /\ StepText(c, k) = text
            /\ ProceedsWith(c, k, text)

\* The first model's generator threw an error without a message and the second
\* model's generator has been invoked.
C5_Witness ==
  \E c \in Sockets :
    /\ Len(calls[c]) = NumModels
    /\ settled[c][1].kind = "threw"
    /\ settled[c][1].value = [kind |-> "Error", message |-> <<>>]

\* A text with no token other than whitespace.
IsBlank(text) == \A i \in 1..Len(text) : text[i] = " "

\* C6: when the generator for model k returns an empty or whitespace-only text
\* (on a valid session), the step's text is the fixed placeholder, which holds
\* the model's identifier and does not begin with `Error:`; it is emitted as
\* exactly one more receive_message with isComplete=false, the terminal chunk
\* follows it, the placeholder is what the stored transcript and the working
\* transcript get, and the sequence goes on to the next model.
C6_EmptyResponseBecomesPlaceholder ==
  \A c \in Sockets :
    \A k \in 1..Len(settled[c]) :
      (settled[c][k].kind = "returned" /\ IsBlank(settled[c][k].value) /\ GetById(sid[c])) =>
        LET id == ExpectedModelIds[k]
            text == StepText(c, k)
            rms == ChunksOf(c, id)
            n == Len(rms)
        IN  /\ text = NoResponseText(id)
            /\ \E i \in 1..Len(text) : text[i] = id
            /\ ~(Len(text) > 0 /\ text[1] = "Error:")
            /\ n = Len(settled[c][k].fragments) + 2
            /\ rms[n - 1].message = text /\ ~rms[n - 1].isComplete
            /\ IsTerminalChunk(rms[n])
            /\ \E i \in 1..Len(store[sid[c]]) :
                 store[sid[c]][i] = [role |-> "assistant", modelId |-> id, content |-> text]
            /\ ProceedsWith(c, k, text)

\* The first model returned a whitespace-only text and the second model's
\* generator has been invoked.
C6_Witness ==
  \E c \in Sockets :
    /\ Len(calls[c]) = NumModels
    /\ GetById(sid[c])
    /\ settled[c][1].kind = "returned"
    /\ settled[c][1].fragments = << <<" ">> >>

\* C7: in every execution of the per-model step, also when the store append
\* inside it fails, exactly one receive_message with empty text and
\* isComplete=true is emitted for the model, and no receive_message of the model
\* follows it.
C7_ExactlyOneTerminalChunkPerStep ==
  \A c \in Sockets :
    \A k \in 1..Len(calls[c]) :
      LET rms == ChunksOf(c, ExpectedModelIds[k])
          terminals == Count(rms, IsTerminalChunk)
      IN  /\ terminals <= 1
          /\ terminals = 1 => IsTerminalChunk(rms[Len(rms)])
          /\ StepResolved(c, k) => terminals = 1

\* C8: every event of a run is emitted on the socket that sent the run's
\* send_message and on no other, and every receive_message, model_complete and
\* all_responses_complete carries the run's sessionId.
C8_EventsOnlyOnOriginatingSocket ==
  \A c \in Sockets :
    /\ out[c] = emitted[c]
    /\ \A i \in 1..Len(out[c]) :
         out[c][i].type \in {"receive_message", "model_complete", "all_responses_complete"}
           => out[c][i].sessionId = sid[c]

\* Two clients have runs in progress at once, each with events emitted.
C8_Witness ==
  /\ \A c \in Sockets : pc[c] = "generating" /\ emitted[c] # <<>>
  /\ \E c, d \in Sockets : sid[c] # sid[d]

IsModelError(e) == e.type = "error" /\ e.code = "model_error"

IsAllResponsesComplete(e) == e.type = "all_responses_complete"

C10_EachModelInvokedOnceInOrder ==
  \A c \in Sockets :
    /\ Len(calls[c]) <= NumModels
    /\ \A k \in 1..Len(calls[c]) : calls[c][k].modelId = ExpectedModelIds[k]
    /\ Len(calls[c]) - Len(settled[c]) \in {0, 1}
    /\ Len(calls[c]) - Len(settled[c]) = 1 <=> pc[c] = "generating"
    /\ pc[c] = "completed" => (Len(calls[c]) = NumModels /\ Len(settled[c]) = NumModels)

\* A run has completed although its first generator call failed.
C10_Witness ==
  \E c \in Sockets :
    /\ pc[c] = "completed"
    /\ settled[c][1].kind = "threw"

HasModelComplete(c, k) ==
  \E i \in 1..Len(emitted[c]) :
    emitted[c][i].type = "model_complete" /\ emitted[c][i].order = k

\* C11: once model_complete for model k has been emitted (on a session the
\* store knows), whether the step succeeded or recovered from a generator
\* failure, the assistant message of model k, with its modelId and the step's
\* final text, is in the working transcript and in the stored transcript, with
\* the same content.
C11_ModelCompleteMeansStoredAndPushed ==
  \A c \in Sockets :
    \A k \in 1..NumModels :
      (HasModelComplete(c, k) /\ GetById(sid[c])) =>
        LET msg == history[c][Len(before[c]) + 1 + k]
        IN  /\ msg.role = "assistant"
            /\ msg.modelId = ExpectedModelIds[k]
            /\ \E i \in 1..Len(store[sid[c]]) : store[sid[c]][i] = msg

\* The step's text is one of: the text the generator returned, the placeholder
\* of the model, or an `Error: ...` string.
IsStepText(text, o, id) ==
  \/ o.kind = "returned" /\ ~IsBlank(o.value) /\ text = o.value
  \/ o.kind = "returned" /\ IsBlank(o.value) /\ text = NoResponseText(id)
  \/ Len(text) > 2 /\ text[1] = "Error:"

\* C12: the per-model step never propagates a failure to the sequencer:
\* whenever it settles it resolves, with the real answer, the placeholder or an
\* `Error: ...` string, whether the generator returned text, returned empty
\* text or threw an error before or after emitting chunks; no run that reached
\* a model ends in the sequencer's failure path.
C12_StepResolvesAndNeverRejects ==
  \A c \in Sockets :
    /\ calls[c] # <<>> => (pc[c] # "aborted" /\ Count(emitted[c], IsModelError) = 0)
    /\ \A k \in 1..Len(settled[c]) :
         (settled[c][k].kind = "returned" \/ settled[c][k].value.kind = "Error") =>
           /\ StepResolved(c, k)
           /\ IsStepText(StepText(c, k), settled[c][k], ExpectedModelIds[k])

\* A step has resolved after its generator streamed a fragment and then threw.
C12_Witness ==
  \E c \in Sockets :
    /\ settled[c] # <<>>
    /\ settled[c][1].kind = "threw"
    /\ settled[c][1].fragments # <<>>
    /\ StepResolved(c, 1)

\* The fragments the generator call for model k of the run of socket c has
\* passed to the chunk callback so far.
FragmentsOf(c, k) ==
  IF k <= Len(settled[c]) THEN settled[c][k].fragments ELSE streamed[c]

\* C13: each fragment the generator passes to the chunk callback while model k
\* runs is forwarded as one receive_message with the fragment as text,
\* isComplete=false, the model's modelId and order and the run's sessionId; the
\* events come in the order of the callback invocations, none dropped or
\* duplicated (while the call is in flight they are all of the model's
\* events), and all of them come before the model's terminal chunk.
C13_FragmentsForwardedInOrder ==
  \A c \in Sockets :
    \A k \in 1..Len(calls[c]) :
      LET fs == FragmentsOf(c, k)
          rms == ChunksOf(c, ExpectedModelIds[k])
      IN  /\ Len(rms) >= Len(fs)
          /\ k > Len(settled[c]) => Len(rms) = Len(fs)
          /\ \A i \in 1..Len(fs) :
               rms[i] = [type |-> "receive_message", modelId |-> ExpectedModelIds[k],
                         message |-> fs[i], isComplete |-> FALSE,
                         sessionId |-> sid[c], order |-> k]
          /\ \A i \in 1..Len(rms) : rms[i].isComplete => i > Len(fs)

\* A generator call has streamed two different fragments and then returned.
C13_Witness ==
  \E c \in Sockets :
    /\ settled[c] # <<>>
    /\ settled[c][1].kind = "returned"
    /\ settled[c][1].fragments = << <<"hello">>, <<" ">> >>

\* C14: when the generator for model k returns a non-empty text that begins
\* with `Error:` (on a valid session), the step uses it unchanged as the
\* assistant message content, stored and returned; it emits nothing for it
\* besides the forwarded fragments and the terminal chunk, and the sequence
\* goes on to the next model.
C14_ErrorPrefixedTextIsKept ==
  \A c \in Sockets :
    \A k \in 1..Len(settled[c]) :
      LET o == settled[c][k]
          id == ExpectedModelIds[k]
          rms == ChunksOf(c, id)
      IN  (o.kind = "returned" /\ Len(o.value) > 0 /\ o.value[1] = "Error:" /\ GetById(sid[c])) =>
            /\ StepText(c, k) = o.value
            /\ Len(rms) = Len(o.fragments) + 1
            /\ IsTerminalChunk(rms[Len(rms)])
            /\ \E i \in 1..Len(store[sid[c]]) :
                 store[sid[c]][i] = [role |-> "assistant", modelId |-> id, content |-> o.value]
            /\ ProceedsWith(c, k, o.value)

\* The first model returned a text beginning with `Error:` and the second
\* model's generator has been invoked.
C14_Witness ==
  \E c \in Sockets :
    /\ Len(calls[c]) = NumModels
    /\ GetById(sid[c])
    /\ settled[c][1].kind = "returned"
    /\ settled[c][1].fragments = << <<"Error:">> >>

\* A step of the run of socket c after its handler began.
RunStep(c) ==
  \/ \E f \in Fragments : GeneratorChunk(c, f)
  \/ \E outcome \in {"appended", "ignored", "throws"} : GeneratorReturns(c, outcome)
  \/ \E err \in Failures : GeneratorThrows(c, err)
  \/ SequencerStep(c)

\* The run of socket c has ended: Completed with all_responses_complete, or
\* Aborted with an error event.
RunEnded(c) ==
  \/ pc[c] = "completed" /\ Count(emitted[c], IsAllResponsesComplete) = 1
  \/ pc[c] \in {"rejected", "aborted"}
       /\ Count(emitted[c], LAMBDA e : e.type = "error") = 1

\* C15: every run that has begun either has ended, Completed or Aborted, or
\* can still take a step (its generator call can return or fail, its
\* sequencer can resume): no run is left in Running(i) with nothing to come,
\* also when its failure handling fails.
C15_EveryRunEndsOrCanGoOn ==
  \A c \in Sockets :
    pc[c] # "idle" => (RunEnded(c) \/ ENABLED RunStep(c))

\* C16: runs on one session are not serialized against each other: while a
\* run is in progress on a session, the handler of another client's
\* send_message for the same session goes ahead, and both runs can then append
\* to the stored transcript; so a message of one run can come to lie between
\* the user message and an assistant message of the other.
C16_RunsOnOneSessionAreNotSerialized ==
  \A c \in Sockets :
    \A d \in Sockets \ {c} :
      /\ (pc[c] \in {"generating", "resolved"} /\ GetById(sid[c]) /\ pc[d] = "idle")
           => \A text \in UserTexts : ENABLED SendMessageValid(d, sid[c], text)
      /\ (pc[c] = "generating" /\ pc[d] = "generating" /\ sid[c] = sid[d] /\ GetById(sid[c]))
           => ENABLED GeneratorReturns(c, "appended")

\* The stored transcript of a session holds the user message of one run, then
\* the user message of a second run, then an assistant message of the first.
C16_Witness ==
  \E c \in Sockets :
    \E d \in Sockets \ {c} :
      /\ sid[c] = sid[d]
      /\ GetById(sid[c])
      /\ Len(before[d]) = Len(before[c]) + 1
      /\ pc[d] = "generating" /\ settled[d] = <<>>
      /\ settled[c] # <<>> /\ settled[c][1].kind = "returned"
      /\ LET t == store[sid[c]]
             n == Len(before[c])
         IN  /\ Len(t) = n + 3
             /\ t[n + 1].role = "user"
             /\ t[n + 2].role = "user"
             /\ t[n + 3].role = "assistant"

IsPrefix(a, b) == Len(a) <= Len(b) /\ SubSeq(b, 1, Len(a)) = a

\* C17: the stored transcript of every session the store knows is append-only
\* under any interleaving of runs: in every step the transcript before the step
\* is a prefix of the transcript after it.
C17_StoredTranscriptIsAppendOnly ==
  [][\A s \in SessionIds : s \in sessions' => IsPrefix(store[s], store'[s])]_vars

\* Two runs have both appended to the stored transcript of one session.
C17_Witness ==
  \E s \in SessionIds :
    /\ GetById(s)
    /\ \A c \in Sockets : sid[c] = s /\ settled[c] # <<>>
    /\ Len(store[s]) >= 4

\* The texts of the receive_message events with isComplete=false that the
\* run of socket c has emitted for model id, in emission order.
StreamedTexts(c, id) ==
  LET rms == SelectSeq(ChunksOf(c, id), LAMBDA e : ~e.isComplete)
  IN  [i \in 1..Len(rms) |-> rms[i].message]

IsSuffix(a, b) == Len(a) <= Len(b) /\ SubSeq(b, Len(b) - Len(a) + 1, Len(b)) = a

\* C18 as claimed: for every model of every run (on a session the store
\* knows), the concatenation of the texts of its receive_message events with
\* isComplete=false equals the content of the assistant message recorded for
\* it, whatever the generator did.
C18_StreamedTextEqualsContent ==
  \A c \in Sockets :
    \A k \in 1..Len(settled[c]) :
      (StepResolved(c, k) /\ GetById(sid[c])) =>
        Flatten(StreamedTexts(c, ExpectedModelIds[k])) = StepText(c, k)

\* C18 as amended: the content of the assistant message recorded for a model
\* is a suffix of the concatenation of the texts of its receive_message events
\* with isComplete=false. On a session the store knows the two are equal when
\* the generator returned a text that is not blank or emitted no fragment;
\* after a whitespace-only text or a failure after fragments the
\* concatenation is the fragments followed by the content.
C18_ContentEndsTheStreamedText ==
  \A c \in Sockets :
    \A k \in 1..Len(settled[c]) :
      StepResolved(c, k) =>
        LET o == settled[c][k]
            streamedText == Flatten(StreamedTexts(c, ExpectedModelIds[k]))
            content == StepText(c, k)
            kept == o.kind = "returned" /\ ~IsBlank(o.value)
        IN  /\ IsSuffix(content, streamedText)
            /\ (GetById(sid[c]) /\ (kept \/ o.fragments = <<>>)) => streamedText = content
            /\ (GetById(sid[c]) /\ ~kept) => streamedText = Flatten(o.fragments) \o content

\* A step has resolved after its generator streamed two fragments and threw.
C18_Witness ==
  \E c \in Sockets :
    /\ settled[c] # <<>>
    /\ StepResolved(c, 1)
    /\ GetById(sid[c])
    /\ settled[c][1].kind = "threw"
    /\ Len(settled[c][1].fragments) = 2

\* An event that ends a run: error{invalid_session}, error{model_error} or
\* all_responses_complete.
IsRunTerminating(e) == e.type = "error" \/ e.type = "all_responses_complete"

\* Anything the handler of socket c can still do.
HandlerStep(c) ==
  \/ SendMessageMalformed(c)
  \/ \E s \in SessionIds : SendMessageInvalid(c, s)
  \/ \E s \in SessionIds, text \in UserTexts : SendMessageValid(c, s, text)
  \/ RunStep(c)

\* C19: a run emits at most one run-terminating event, so at most one of
\* error{invalid_session}, error{model_error} and all_responses_complete; it
\* is the last event of the run, and once it is emitted the run has no step
\* left: no further event, generator invocation or transcript append.
C19_AtMostOneTerminatingEventAndNothingAfter ==
  \A c \in Sockets :
    /\ Count(emitted[c], IsRunTerminating) <= 1
    /\ \A i \in 1..Len(emitted[c]) :
         IsRunTerminating(emitted[c][i]) =>
           /\ i = Len(emitted[c])
           /\ emitted[c][i] \in {InvalidSessionError, ModelError, AllResponsesComplete(sid[c])}
           /\ ~ENABLED HandlerStep(c)
    /\ (Count(emitted[c], IsRunTerminating) = 1) <=> (pc[c] \in {"completed", "aborted", "rejected"})

\* One run has ended with all_responses_complete and the other with an error.
C19_Witness ==
  \E c \in Sockets :
    \E d \in Sockets \ {c} :
      /\ pc[c] = "completed"
      /\ Count(emitted[c], IsAllResponsesComplete) = 1
      /\ pc[d] \in {"aborted", "rejected"}
      /\ Count(emitted[d], LAMBDA e : e.type = "error") = 1

\* C20: a step of a run for session s leaves the stored transcript of every
\* other session unchanged, and the transcript a run passes to a generator is
\* made of its own session's stored transcript as read when the run began,
\* followed by the run's own assistant messages: never a message of another
\* session, whatever the runs on other sessions do in between.
C20_RunTouchesOnlyItsOwnSession ==
  [][\A c \in Sockets :
       /\ pc'[c] # pc[c] =>
            \A s \in SessionIds \ {sid'[c]} : store'[s] = store[s]
       /\ Len(calls'[c]) > Len(calls[c]) =>
            LET k == Len(calls'[c])
            IN  IF k = 1
                THEN calls'[c][1].history = Append(store[sid'[c]], store'[sid'[c]][Len(store'[sid'[c]])])
                     /\ store'[sid'[c]] = calls'[c][1].history
                ELSE calls'[c][k].history =
                       Append(calls[c][k - 1].history,
                              AssistantMessage(Models[k - 1], result[c]))]_vars

\* Two runs on different sessions have both invoked every model, and both
\* sessions have a stored transcript.
C20_Witness ==
  /\ \A c \in Sockets : Len(calls[c]) = NumModels /\ GetById(sid[c])
  /\ \A c \in Sockets : \A d \in Sockets \ {c} : sid[c] # sid[d]
  /\ \A c \in Sockets : Len(store[sid[c]]) >= 2

====
